---- MODULE Spec2Model ----
(***************************************************************************)
(* A model of test_cq.py, the Code Quest grading harness:                  *)
(*   get_cq_files -> group_cq_files -> create_test_funcs -> unittest.main  *)
(* and of check_solution, the verifier each generated test method calls.   *)
(*                                                                         *)
(* Strings (file names, paths, file contents, process output, diff         *)
(* entries) are sequences of one-character strings, so that matching,      *)
(* slicing, replacing, sorting and splitting are computed as Python        *)
(* computes them.                                                          *)
(***************************************************************************)
EXTENDS Integers, Sequences, FiniteSets, TLC

VARIABLES
    listing,        \* os.listdir(target_dir): the set of names in the directory
    phase,          \* position of main(): start, discovered, grouped, created, running, reported
    matched,        \* cq_files, the set get_cq_files returned
    grouped,        \* the dict group_cq_files returned: prob_num -> list of names
    tests,          \* attributes set on TestSolutions: method name -> bound cq_files
    results,        \* what unittest recorded: method name -> outcome of the test method
    in_file,        \* check_solution's arguments and locals
    out_file,
    solution_file,
    fileRaw,        \* the raw content of the expected-output file on disk
    expected_out,
    csPc,           \* position of check_solution: idle, read, staged, ran, done
    procRan,        \* whether subprocess.Popen was called, and on which command
    procCmd,
    procOut,        \* what the solution process wrote: stdout, stderr, its exit code
    procErr,
    procCode,
    raised,         \* the exception check_solution ended with, or NoException
    written,        \* files written by check_solution: path -> content
    tmpdirs         \* temporary directories that exist on disk

vars == <<listing, phase, matched, grouped, tests, results, in_file, out_file,
          solution_file, fileRaw, expected_out, csPc, procRan, procCmd, procOut,
          procErr, procCode, raised, written, tmpdirs>>

mainVars == <<listing, phase, matched, grouped, tests, results>>

csVars == <<in_file, out_file, solution_file, fileRaw, expected_out, csPc, procRan,
            procCmd, procOut, procErr, procCode, raised, written, tmpdirs>>

(***************************************************************************)
(* Bounds of the model.                                                    *)
(***************************************************************************)
\* longest file content / process output, in characters
MaxText == 3
\* problem numbers whose three well-formed files may be in the directory
NumProblems == 2

(***************************************************************************)
(* Small helpers.                                                          *)
(***************************************************************************)
SetMax(S) == CHOOSE x \in S : \A y \in S : y <= x

SetMin(S) == CHOOSE x \in S : \A y \in S : x <= y

Range(s) == {s[k] : k \in 1..Len(s)}

\* all sequences over S of length at most n
RECURSIVE SeqsUpTo(_, _)
SeqsUpTo(S, n) ==
    IF n = 0 THEN {<<>>}
    ELSE LET shorter == SeqsUpTo(S, n - 1)
         IN shorter \cup {Append(s, c) : s \in {t \in shorter : Len(t) = n - 1}, c \in S}

\* all orders in which the members of the finite set S can be listed
RECURSIVE Orderings(_)
Orderings(S) ==
    IF S = {} THEN {<<>>}
    ELSE UNION {{<<x>> \o rest : rest \in Orderings(S \ {x})} : x \in S}

\* "".join(lines)
RECURSIVE Join(_)
Join(lines) == IF lines = <<>> THEN <<>> ELSE Head(lines) \o Join(Tail(lines))

\* s.startswith(prefix)
StartsWith(s, prefix) ==
    /\ Len(prefix) <= Len(s)
    /\ SubSeq(s, 1, Len(prefix)) = prefix

\* s.replace(old, new): every non-overlapping occurrence, left to right
RECURSIVE StrReplace(_, _, _)
StrReplace(s, old, new) ==
    IF s = <<>> THEN <<>>
    ELSE IF StartsWith(s, old)
         THEN new \o StrReplace(SubSeq(s, Len(old) + 1, Len(s)), old, new)
         ELSE <<Head(s)>> \o StrReplace(Tail(s), old, new)

\* str.isspace() for one character
IsSpace(c) == c \in {" ", "\t", "\n", "\r", "\f"}

\* s.rstrip()
RECURSIVE RStrip(_)
RStrip(s) ==
    IF s = <<>> THEN <<>>
    ELSE IF IsSpace(s[Len(s)]) THEN RStrip(SubSeq(s, 1, Len(s) - 1)) ELSE s

(***************************************************************************)
(* Reading and normalising text (check_solution, lines 186-191 and 225).   *)
(***************************************************************************)
\* open(file, 'r').read(): text mode with universal newlines turns both
\* "\r\n" and a lone "\r" into "\n"
RECURSIVE ReadText(_)
ReadText(raw) ==
    IF raw = <<>> THEN <<>>
    ELSE IF Head(raw) = "\r"
         THEN <<"\n">> \o ReadText(IF Len(raw) > 1 /\ raw[2] = "\n"
                                   THEN Tail(Tail(raw)) ELSE Tail(raw))
         ELSE <<Head(raw)>> \o ReadText(Tail(raw))

\* bytes.decode('utf-8') of the captured stream: no newline translation
Decode(raw) == raw

\* .replace('\r', '')
StripCR(s) == StrReplace(s, <<"\r">>, <<>>)

\* the one-character line breaks of str.splitlines, among the characters a
\* text of the model can hold; "\r\n" is one line break as well
LineBoundaries == {"\n", "\r", "\f"}

\* .splitlines(True): the lines, each keeping its line break; cur is the
\* line being collected
RECURSIVE SplitLinesFrom(_, _)
SplitLinesFrom(s, cur) ==
    IF s = <<>> THEN (IF cur = <<>> THEN <<>> ELSE <<cur>>)
    ELSE IF Head(s) = "\r" /\ Len(s) > 1 /\ s[2] = "\n"
         THEN <<cur \o <<"\r", "\n">>>> \o SplitLinesFrom(Tail(Tail(s)), <<>>)
         ELSE IF Head(s) \in LineBoundaries
         THEN <<Append(cur, Head(s))>> \o SplitLinesFrom(Tail(s), <<>>)
         ELSE SplitLinesFrom(Tail(s), Append(cur, Head(s)))

SplitLines(s) == SplitLinesFrom(s, <<>>)

\* text.replace('\r', '').splitlines(True)
Normalize(text) == SplitLines(StripCR(text))

(***************************************************************************)
(* difflib.SequenceMatcher(None, a, b) as Differ uses it (line 230).       *)
(* Indices are Python's: 0-based, ranges half-open; a[i] is a[i+1] here.   *)
(* No element is junk (linejunk and charjunk are None), and the popularity *)
(* heuristic only applies to sequences of 200 elements or more.            *)
(***************************************************************************)
\* the number of consecutive equal elements from a[i], b[j]
RECURSIVE MatchLen(_, _, _, _, _, _)
MatchLen(a, b, i, j, ahi, bhi) ==
    IF i < ahi /\ j < bhi /\ a[i + 1] = b[j + 1]
    THEN 1 + MatchLen(a, b, i + 1, j + 1, ahi, bhi)
    ELSE 0

\* find_longest_match: the longest matching block in a[alo:ahi], b[blo:bhi];
\* of the longest ones, the one starting earliest in a, then earliest in b
FindLongestMatch(a, b, alo, ahi, blo, bhi) ==
    LET pairs == (alo..(ahi - 1)) \X (blo..(bhi - 1))
        size(p) == MatchLen(a, b, p[1], p[2], ahi, bhi)
        bestsize == IF pairs = {} THEN 0 ELSE SetMax({size(p) : p \in pairs})
    IN IF bestsize = 0 THEN <<alo, blo, 0>>
       ELSE LET cands == {p \in pairs : size(p) = bestsize}
                besti == SetMin({p[1] : p \in cands})
                bestj == SetMin({p[2] : p \in {q \in cands : q[1] = besti}})
            IN <<besti, bestj, bestsize>>

\* the loop of get_matching_blocks: the longest match, then the same to its
\* left and to its right; listed in increasing order as the sort leaves them
RECURSIVE MatchingBlocksIn(_, _, _, _, _, _)
MatchingBlocksAround(a, b, alo, ahi, blo, bhi, x) ==
    LET i == x[1]
        j == x[2]
        k == x[3]
    IN IF k = 0 THEN <<>>
       ELSE (IF alo < i /\ blo < j THEN MatchingBlocksIn(a, b, alo, i, blo, j) ELSE <<>>)
            \o <<x>>
            \o (IF i + k < ahi /\ j + k < bhi
                THEN MatchingBlocksIn(a, b, i + k, ahi, j + k, bhi) ELSE <<>>)

MatchingBlocksIn(a, b, alo, ahi, blo, bhi) ==
    MatchingBlocksAround(a, b, alo, ahi, blo, bhi,
                         FindLongestMatch(a, b, alo, ahi, blo, bhi))

\* the second loop of get_matching_blocks: adjacent blocks collapse into one
RECURSIVE CollapseAdjacent(_, _)
CollapseAdjacent(blocks, cur) ==
    LET keep == IF cur[3] > 0 THEN <<cur>> ELSE <<>>
    IN IF blocks = <<>> THEN keep
       ELSE LET x == Head(blocks)
            IN IF cur[1] + cur[3] = x[1] /\ cur[2] + cur[3] = x[2]
               THEN CollapseAdjacent(Tail(blocks), <<cur[1], cur[2], cur[3] + x[3]>>)
               ELSE keep \o CollapseAdjacent(Tail(blocks), x)

GetMatchingBlocks(a, b) ==
    CollapseAdjacent(MatchingBlocksIn(a, b, 0, Len(a), 0, Len(b)), <<0, 0, 0>>)
        \o <<(<<Len(a), Len(b), 0>>)>>

\* get_opcodes: how to turn a into b, block by block
RECURSIVE OpcodesFrom(_, _, _)
OpcodesFrom(blocks, i, j) ==
    IF blocks = <<>> THEN <<>>
    ELSE LET ai == Head(blocks)[1]
             bj == Head(blocks)[2]
             size == Head(blocks)[3]
             tag == IF i < ai /\ j < bj THEN "replace"
                    ELSE IF i < ai THEN "delete"
                    ELSE IF j < bj THEN "insert"
                    ELSE ""
             change == IF tag # ""
                       THEN <<[tag |-> tag, i1 |-> i, i2 |-> ai, j1 |-> j, j2 |-> bj]>>
                       ELSE <<>>
             same == IF size > 0
                     THEN <<[tag |-> "equal", i1 |-> ai, i2 |-> ai + size,
                             j1 |-> bj, j2 |-> bj + size]>>
                     ELSE <<>>
         IN change \o same \o OpcodesFrom(Tail(blocks), ai + size, bj + size)

GetOpcodes(a, b) == OpcodesFrom(GetMatchingBlocks(a, b), 0, 0)

\* ratio(): 2.0 * matches / (len(a) + len(b)), kept as <<numerator, denominator>>
RECURSIVE SumSizes(_)
SumSizes(blocks) == IF blocks = <<>> THEN 0 ELSE Head(blocks)[3] + SumSizes(Tail(blocks))

Ratio(a, b) ==
    IF Len(a) + Len(b) = 0 THEN <<1, 1>>
    ELSE <<2 * SumSizes(GetMatchingBlocks(a, b)), Len(a) + Len(b)>>

RatioGT(r, s) == r[1] * s[2] > s[1] * r[2]

RatioLT(r, s) == r[1] * s[2] < s[1] * r[2]

(***************************************************************************)
(* difflib.Differ().compare(a, b) (line 230): the entries of the delta.    *)
(***************************************************************************)
\* one entry of the delta: '%s %s' % (tag, line)
Entry(tag, line) == <<tag, " ">> \o line

\* _dump
Dump(tag, x, lo, hi) == [k \in 1..(hi - lo) |-> Entry(tag, x[lo + k])]

\* _plain_replace
PlainReplace(a, alo, ahi, b, blo, bhi) ==
    IF bhi - blo < ahi - alo
    THEN Dump("+", b, blo, bhi) \o Dump("-", a, alo, ahi)
    ELSE Dump("-", a, alo, ahi) \o Dump("+", b, blo, bhi)

\* _keep_original_ws
KeepOriginalWs(s, tag_s) ==
    [k \in 1..(IF Len(s) < Len(tag_s) THEN Len(s) ELSE Len(tag_s)) |->
        IF tag_s[k] = " " /\ IsSpace(s[k]) THEN s[k] ELSE tag_s[k]]

\* _qformat
QFormat(aline, bline, atags, btags) ==
    LET at == RStrip(KeepOriginalWs(aline, atags))
        bt == RStrip(KeepOriginalWs(bline, btags))
    IN <<Entry("-", aline)>>
       \o (IF at # <<>> THEN <<Entry("?", at \o <<"\n">>)>> ELSE <<>>)
       \o <<Entry("+", bline)>>
       \o (IF bt # <<>> THEN <<Entry("?", bt \o <<"\n">>)>> ELSE <<>>)

Repeat(c, n) == [k \in 1..n |-> c]

\* the intraline tags _fancy_replace builds from the opcodes of two lines
RECURSIVE ATags(_)
ATags(ops) ==
    IF ops = <<>> THEN <<>>
    ELSE LET op == Head(ops)
             la == op.i2 - op.i1
         IN (IF op.tag = "replace" THEN Repeat("^", la)
             ELSE IF op.tag = "delete" THEN Repeat("-", la)
             ELSE IF op.tag = "equal" THEN Repeat(" ", la)
             ELSE <<>>) \o ATags(Tail(ops))

RECURSIVE BTags(_)
BTags(ops) ==
    IF ops = <<>> THEN <<>>
    ELSE LET op == Head(ops)
             lb == op.j2 - op.j1
         IN (IF op.tag = "replace" THEN Repeat("^", lb)
             ELSE IF op.tag = "insert" THEN Repeat("+", lb)
             ELSE IF op.tag = "equal" THEN Repeat(" ", lb)
             ELSE <<>>) \o BTags(Tail(ops))

\* the starting best_ratio and the cutoff of _fancy_replace
BestRatio0 == <<74, 100>>

Cutoff == <<75, 100>>

\* the loops of _fancy_replace visit j outermost, i innermost: the pair of P
\* they meet first
FirstPair(P) ==
    LET j == SetMin({p[2] : p \in P})
    IN <<SetMin({p[1] : p \in {q \in P : q[2] = j}}), j>>

\* the pairs of equal lines of a[alo:ahi], b[blo:bhi]
EqualPairs(a, alo, ahi, b, blo, bhi) ==
    {p \in (alo..(ahi - 1)) \X (blo..(bhi - 1)) : a[p[1] + 1] = b[p[2] + 1]}

\* the pairs of unequal lines, each with its ratio()
ScoredPairs(a, alo, ahi, b, blo, bhi) ==
    {<<p, Ratio(a[p[1] + 1], b[p[2] + 1])>> :
        p \in {q \in (alo..(ahi - 1)) \X (blo..(bhi - 1)) : a[q[1] + 1] # b[q[2] + 1]}}

\* the pairs whose ratio beats the starting best_ratio and is beaten by none
ClosestPairs(scored) ==
    LET close == {s \in scored : RatioGT(s[2], BestRatio0)}
    IN {s \in close : \A q \in close : ~RatioGT(q[2], s[2])}

\* the intraline marking of the synch pair
MarkedPair(aelt, belt, ops) == QFormat(aelt, belt, ATags(ops), BTags(ops))

\* _fancy_replace, with _fancy_helper for the lines before and after the
\* synch point
RECURSIVE FancyReplace(_, _, _, _, _, _)
FancyHelper(a, alo, ahi, b, blo, bhi) ==
    IF alo < ahi
    THEN IF blo < bhi THEN FancyReplace(a, alo, ahi, b, blo, bhi)
         ELSE Dump("-", a, alo, ahi)
    ELSE IF blo < bhi THEN Dump("+", b, blo, bhi)
    ELSE <<>>

\* the delta around the synch pair a[best_i], b[best_j]; marked says whether
\* the pair is a close one (marked intraline) or an equal one
FancyAround(a, alo, ahi, b, blo, bhi, best_i, best_j, marked) ==
    FancyHelper(a, alo, best_i, b, blo, best_j)
        \o (IF marked
            THEN MarkedPair(a[best_i + 1], b[best_j + 1],
                            GetOpcodes(a[best_i + 1], b[best_j + 1]))
            ELSE <<Entry(" ", a[best_i + 1])>>)
        \o FancyHelper(a, best_i + 1, ahi, b, best_j + 1, bhi)

\* the choice of the synch pair, from the equal pairs and the closest pairs
FancySynch(a, alo, ahi, b, blo, bhi, equal, closest) ==
    LET best == IF closest = {} THEN <<0, 0>>
                ELSE FirstPair({s[1] : s \in closest})
        best_ratio == IF closest = {} THEN BestRatio0
                      ELSE (CHOOSE s \in closest : s[1] = best)[2]
        synch == IF RatioLT(best_ratio, Cutoff) THEN FirstPair(equal) ELSE best
    IN IF RatioLT(best_ratio, Cutoff) /\ equal = {}
       THEN PlainReplace(a, alo, ahi, b, blo, bhi)
       ELSE FancyAround(a, alo, ahi, b, blo, bhi, synch[1], synch[2],
                        ~RatioLT(best_ratio, Cutoff))

FancyReplace(a, alo, ahi, b, blo, bhi) ==
    FancySynch(a, alo, ahi, b, blo, bhi,
               EqualPairs(a, alo, ahi, b, blo, bhi),
               ClosestPairs(ScoredPairs(a, alo, ahi, b, blo, bhi)))

\* compare: the delta of the opcodes, in order
RECURSIVE CompareOps(_, _, _)
CompareOps(ops, a, b) ==
    IF ops = <<>> THEN <<>>
    ELSE LET op == Head(ops)
         IN (IF op.tag = "replace" THEN FancyReplace(a, op.i1, op.i2, b, op.j1, op.j2)
             ELSE IF op.tag = "delete" THEN Dump("-", a, op.i1, op.i2)
             ELSE IF op.tag = "insert" THEN Dump("+", b, op.j1, op.j2)
             ELSE Dump(" ", a, op.i1, op.i2)) \o CompareOps(Tail(ops), a, b)

Compare(a, b) == CompareOps(GetOpcodes(a, b), a, b)

(***************************************************************************)
(* File names and paths.                                                   *)
(***************************************************************************)
Digits == <<"0", "1", "2", "3", "4", "5", "6", "7", "8", "9">>

IsDigit(c) == c \in Range(Digits)

DigitVal(c) == (CHOOSE k \in 1..10 : Digits[k] = c) - 1

\* the characters of names and paths in code point order, for comparing strings
CodeOrder ==
    <<".", "/", "0", "1", "2", "3", "4", "5", "6", "7", "8", "9",
      "P", "_", "a", "b", "c", "e", "i", "n", "o", "p", "r", "s", "t", "u", "x", "y">>

Ord(c) == CHOOSE k \in 1..Len(CodeOrder) : CodeOrder[k] = c

\* s < t for Python strings
RECURSIVE StrLess(_, _)
StrLess(s, t) ==
    IF t = <<>> THEN FALSE
    ELSE IF s = <<>> THEN TRUE
    ELSE IF Head(s) = Head(t) THEN StrLess(Tail(s), Tail(t))
    ELSE Ord(Head(s)) < Ord(Head(t))

\* sorted(names), the names being distinct
Sorted(names) ==
    CHOOSE t \in Orderings(Range(names)) :
        \A i \in 1..Len(t) : \A j \in 1..Len(t) : i < j => StrLess(t[i], t[j])

\* the position of the last "/" of a path, 0 when it has none
LastSlash(p) == SetMax({0} \cup {k \in 1..Len(p) : p[k] = "/"})

\* os.path.basename
Basename(p) == SubSeq(p, LastSlash(p) + 1, Len(p))

\* os.path.dirname: the head, without its trailing slashes unless it is all slashes
RECURSIVE StripSlashes(_)
StripSlashes(s) ==
    IF s # <<>> /\ s[Len(s)] = "/" THEN StripSlashes(SubSeq(s, 1, Len(s) - 1)) ELSE s

Dirname(p) ==
    LET head == SubSeq(p, 1, LastSlash(p))
    IN IF head # <<>> /\ Range(head) # {"/"} THEN StripSlashes(head) ELSE head

\* '{:02d}'.format(n), n >= 0
RECURSIVE Decimal(_)
Decimal(n) == IF n < 10 THEN <<Digits[n + 1]>> ELSE Append(Decimal(n \div 10), Digits[(n % 10) + 1])

Format02d(n) == IF n < 10 THEN <<"0">> \o Decimal(n) ELSE Decimal(n)

\* int(s) for a string of decimal digits; -1 stands for the ValueError
RECURSIVE IntOfDigits(_, _)
IntOfDigits(s, acc) ==
    IF s = <<>> THEN acc ELSE IntOfDigits(Tail(s), 10 * acc + DigitVal(Head(s)))

IntOf(s) == IF s # <<>> /\ \A k \in 1..Len(s) : IsDigit(s[k]) THEN IntOfDigits(s, 0) ELSE -1

ProbPrefix == <<"P", "r", "o", "b">>

InExt == <<".", "i", "n", ".", "t", "x", "t">>

OutExt == <<".", "o", "u", "t", ".", "t", "x", "t">>

PyExt == <<".", "p", "y">>

\* the three names of problem n: Prob(xx).in.txt, Prob(xx).out.txt, Prob(xx).py
InName(n) == ProbPrefix \o Format02d(n) \o InExt

OutName(n) == ProbPrefix \o Format02d(n) \o OutExt

PyName(n) == ProbPrefix \o Format02d(n) \o PyExt

(***************************************************************************)
(* get_cq_files (lines 95-132).                                            *)
(***************************************************************************)
\* re.compile(REGEX_PATTERN).match(f), REGEX_PATTERN (line 54) being
\* Prob[0-9]{2}\.((in|out)\.txt|py): match() anchors the pattern at the start
\* of f only
RegexMatch(f) ==
    /\ StartsWith(f, ProbPrefix)
    /\ Len(f) >= 6
    /\ IsDigit(f[5])
    /\ IsDigit(f[6])
    /\ LET rest == SubSeq(f, 7, Len(f))
       IN \/ StartsWith(rest, InExt)
          \/ StartsWith(rest, OutExt)
          \/ StartsWith(rest, PyExt)

\* the set get_cq_files returns for a listing
MatchedFiles(names) == {f \in names : RegexMatch(f)}

(***************************************************************************)
(* group_cq_files (lines 136-166).                                         *)
(***************************************************************************)
\* a slip in the slice: [5:6], the last digit only
GetProbNumOneDigit(x) == SubSeq(Basename(x), 6, 6)

\* get_prob_num: os.path.basename(x)[4:6]
GetProbNum(x) == LET base == Basename(x) IN SubSeq(base, 5, IF Len(base) < 6 THEN Len(base) ELSE 6)

\* _prob_num = int(get_prob_num(cq_file))
ProbNumOf(cq_file) == IntOf(GetProbNum(cq_file))

\* The dicts the loop can build: each file is appended to the list of its
\* number, and the lists are in the order the set cq_files is iterated in,
\* which is any order.
RECURSIVE GroupingsOver(_, _)
GroupingsOver(keys, cq_files) ==
    IF keys = {} THEN {<<>>}
    ELSE LET k == CHOOSE x \in keys : TRUE
             members == {f \in cq_files : ProbNumOf(f) = k}
         IN {(k :> order) @@ rest :
                order \in Orderings(members),
                rest \in GroupingsOver(keys \ {k}, cq_files)}

Groupings(cq_files) == GroupingsOver({ProbNumOf(f) : f \in cq_files}, cq_files)

(***************************************************************************)
(* create_test_funcs (lines 273-293).                                      *)
(***************************************************************************)
\* "test_prob{:02d}".format(prob_num)
TestName(prob_num) == <<"t", "e", "s", "t", "_", "p", "r", "o", "b">> \o Format02d(prob_num)

\* the test methods set on TestSolutions: one per group of three files, bound
\* to the sorted group
CreatedTests(g) ==
    LET eligible == {n \in DOMAIN g : Len(g[n]) = 3}
    IN [name \in {TestName(n) : n \in eligible} |->
           Sorted(g[CHOOSE n \in eligible : TestName(n) = name])]

(***************************************************************************)
(* check_solution (lines 170-265).                                         *)
(***************************************************************************)
NoException == [type |-> "None"]

\* lines 198-206: the files are staged when their directories differ.
\* shutil.copyfile(file, tmpdirname) is given a directory as its target and
\* raises (IsADirectoryError); the with block removes its directory on the
\* way out, the directory of the unused tmpdir object stays.
NeedsStaging(inf, solf) == Dirname(inf) # Dirname(solf)

StagingError == [type |-> "IsADirectoryError"]

\* a slip in the numbering: enumerate(diffs), which counts from 0
EnumerateFromZero(diffs) == [k \in 1..Len(diffs) |-> <<k - 1, diffs[k]>>]

\* enumerate(diffs, 1)
Enumerate(diffs) == [k \in 1..Len(diffs) |-> <<k, diffs[k]>>]

\* the first entry the loop of lines 231-233 stops at: its position in
\* enumerate(diffs, 1), 0 when every entry starts with " "
FirstDivergence(diffs) ==
    LET stops == {k \in 1..Len(diffs) : ~StartsWith(diffs[k], <<" ">>)}
    IN IF stops = {} THEN 0 ELSE SetMin(stops)

\* a slip in the normalisation: the carriage returns of the output are kept
OutLinesUnstripped(rawOut) == SplitLines(Decode(rawOut))

\* out = out.replace('\r', '').splitlines(True)  (lines 218 and 225)
OutLines(rawOut) == Normalize(Decode(rawOut))

\* f.read().replace('\r', '').splitlines(True)  (lines 186-195)
ExpectedLines(raw) == Normalize(ReadText(raw))

\* lines 231-265: the loop over the delta.  On the first entry that is not unchanged
\* the output is written to error_file, and the message of the
\* AssertionError takes the next two entries of the delta with next(diffs):
\* when fewer than two are left, next raises StopIteration instead.
DiffLoop(inf, solf, out, diffs) ==
    LET pairs == Enumerate(diffs)
        k == FirstDivergence(diffs)
        error_file == StrReplace(inf, <<"i", "n">>, <<"e", "r", "r", "o", "r">>)
        artifact == {[path |-> error_file, content |-> Join(out)]}
    IN IF k = 0 THEN [raised |-> NoException, written |-> {}]
       ELSE IF k + 2 <= Len(diffs)
       THEN [raised |-> [type |-> "AssertionError",
                         solution |-> Basename(solf),
                         line_no |-> pairs[k][1],
                         diff |-> pairs[k][2],
                         difference |-> StrReplace(diffs[k + 1], <<" ">>, <<"^">>),
                         expected |-> StrReplace(diffs[k + 2], <<" ">>, <<"^">>),
                         error_file |-> error_file],
             written |-> artifact]
       ELSE [raised |-> [type |-> "StopIteration"], written |-> artifact]

\* lines 225-230: the output is normalised and compared with the expected one
CompareLines(inf, solf, expected, out) == DiffLoop(inf, solf, out, Compare(out, expected))

CompareOutput(inf, solf, expected, rawOut) ==
    CompareLines(inf, solf, expected, OutLines(rawOut))

\* a slip in the order: the output is compared first, and the error stream
\* is looked at only when the output differs
CheckOutputCompareFirst(inf, solf, expected, rawOut, rawErr) ==
    IF OutLines(rawOut) = expected
    THEN [raised |-> NoException, written |-> {}]
    ELSE IF Len(Decode(rawErr)) # 0
    THEN [raised |-> [type |-> "Exception",
                      solution |-> Basename(solf),
                      err |-> Decode(rawErr)],
          written |-> {}]
    ELSE CompareOutput(inf, solf, expected, rawOut)

\* lines 218-265: what check_solution does with the output of the process
CheckOutput(inf, solf, expected, rawOut, rawErr) ==
    IF Len(Decode(rawErr)) # 0
    THEN [raised |-> [type |-> "Exception",
                      solution |-> Basename(solf),
                      err |-> Decode(rawErr)],
          written |-> {}]
    ELSE CompareOutput(inf, solf, expected, rawOut)

\* check_solution as a whole, for a process that writes rawOut and rawErr
CheckSolution(inf, outf, solf, rawExpected, rawOut, rawErr) ==
    IF NeedsStaging(inf, solf)
    THEN [raised |-> StagingError, written |-> {}]
    ELSE CheckOutput(inf, solf, ExpectedLines(rawExpected), rawOut, rawErr)

(***************************************************************************)
(* unittest.main() (line 300), run without options: the test methods of    *)
(* TestSolutions in the order of their names, each one run to its end; an  *)
(* exception a method raises is recorded as that method's result.          *)
(***************************************************************************)
\* a runner that stops at the first test that does not pass
PendingFailFast(t, r) ==
    IF \E name \in DOMAIN r : r[name].status # "ok" THEN {} ELSE DOMAIN t \ DOMAIN r

\* the methods unittest still has to run
Pending(t, r) == DOMAIN t \ DOMAIN r

\* the method unittest runs next: the least name
NextTest(t, r) == CHOOSE name \in Pending(t, r) : \A other \in Pending(t, r) \ {name} : StrLess(name, other)

\* how unittest reports what a test method raised
TestOutcome(exc) ==
    [status |-> IF exc.type = "None" THEN "ok"
                ELSE IF exc.type = "AssertionError" THEN "FAIL"
                ELSE "ERROR",
     exc |-> exc.type]

(***************************************************************************)
(* The inputs of the model.                                                *)
(***************************************************************************)
\* the problem numbers whose files the directory may hold: 03, 12, 21, ...
ProblemNumbers == {9 * k - 6 : k \in 1..NumProblems}

\* other names the directory may hold: a name with characters after the
\* pattern, a one-digit number, characters before the pattern
OddNames ==
    {PyName(3) \o <<"c">>,
     <<"P", "r", "o", "b", "3", ".", "p", "y">>,
     <<"x">> \o PyName(3)}

Names == {InName(n) : n \in ProblemNumbers} \cup {OutName(n) : n \in ProblemNumbers}
            \cup {PyName(n) : n \in ProblemNumbers} \cup OddNames

\* the characters of file contents and of process output
Chars == {"A", "\r", "\n"}

\* two texts of the harness's description: "A\nB\n" and "A\nC\n"
ExtraTexts == {<<"A", "\n", "B", "\n">>, <<"A", "\n", "C", "\n">>}

Texts == SeqsUpTo(Chars, MaxText) \cup ExtraTexts

ErrTexts == {<<>>, <<"E">>}

ExitCodes == {0, 1}

\* the directories the arguments of check_solution may lie in
Dirs == {<<>>, <<"a">>}

Path(dir, name) == IF dir = <<>> THEN name ELSE dir \o <<"/">> \o name

\* what a solution run by a test method may find and write: the content of
\* the expected-output file, its standard output, its error stream
RunCases ==
    {[expected |-> <<"A", "\n">>, out |-> <<"A", "\n">>, err |-> <<>>],
     [expected |-> <<"A", "A", "\n">>, out |-> <<"A", "\r", "\n">>, err |-> <<>>],
     [expected |-> <<"A", "\n">>, out |-> <<>>, err |-> <<>>],
     [expected |-> <<"A", "\n">>, out |-> <<"A", "\n">>, err |-> <<"E">>]}

(***************************************************************************)
(* main() (lines 296-300): the harness run in a directory.                 *)
(***************************************************************************)
CsIdle ==
    /\ in_file = <<>>
    /\ out_file = <<>>
    /\ solution_file = <<>>
    /\ fileRaw = <<>>
    /\ expected_out = <<>>
    /\ procRan = FALSE
    /\ procCmd = <<>>
    /\ procOut = <<>>
    /\ procErr = <<>>
    /\ procCode = 0
    /\ raised = NoException
    /\ written = {}
    /\ tmpdirs = {}

Init ==
    /\ listing \in SUBSET Names
    /\ phase = "start"
    /\ matched = {}
    /\ grouped = <<>>
    /\ tests = <<>>
    /\ results = <<>>
    /\ csPc = "idle"
    /\ CsIdle

\* cq_files = get_cq_files(os.getcwd())
GetCqFiles ==
    /\ phase = "start"
    /\ matched' = MatchedFiles(listing)
    /\ phase' = "discovered"
    /\ UNCHANGED <<listing, grouped, tests, results, csVars>>

\* grouped = group_cq_files(cq_files); int() raises ValueError on a number
\* segment that is not digits, which ends main
GroupCqFiles ==
    /\ phase = "discovered"
    /\ IF \E f \in matched : ProbNumOf(f) < 0
       THEN phase' = "crashed" /\ grouped' = grouped
       ELSE phase' = "grouped" /\ grouped' \in Groupings(matched)
    /\ UNCHANGED <<listing, matched, tests, results, csVars>>

\* create_test_funcs(grouped)
CreateTestFuncs ==
    /\ phase = "grouped"
    /\ tests' = CreatedTests(grouped)
    /\ phase' = "created"
    /\ UNCHANGED <<listing, matched, grouped, results, csVars>>

\* unittest.main() collects the test methods of TestSolutions.  main's
\* locals cq_files and grouped are not read from here on, and are left out
\* of the state.
UnittestMain ==
    /\ phase = "created"
    /\ phase' = "running"
    /\ matched' = {}
    /\ grouped' = <<>>
    /\ UNCHANGED <<listing, tests, results, csVars>>

\* unittest runs the next test method, which calls check_solution on its
\* cq_files, on whatever the files hold and the solution does; what it raises
\* is the method's result
RunTest ==
    /\ phase = "running"
    /\ Pending(tests, results) # {}
    /\ LET name == NextTest(tests, results)
           cq_files == tests[name]
       IN \E c \in RunCases :
            \E res \in {CheckSolution(cq_files[1], cq_files[2], cq_files[3],
                                      c.expected, c.out, c.err)} :
               /\ results' = (name :> TestOutcome(res.raised)) @@ results
               /\ written' = written \cup res.written
    /\ UNCHANGED <<listing, phase, matched, grouped, tests, in_file, out_file,
                   solution_file, fileRaw, expected_out, csPc, procRan, procCmd,
                   procOut, procErr, procCode, raised, tmpdirs>>

\* unittest has run every method and reports
Report ==
    /\ phase = "running"
    /\ Pending(tests, results) = {}
    /\ phase' = "reported"
    /\ UNCHANGED <<listing, matched, grouped, tests, results, csVars>>

Next ==
    \/ GetCqFiles
    \/ GroupCqFiles
    \/ CreateTestFuncs
    \/ UnittestMain
    \/ RunTest
    \/ Report

Spec == Init /\ [][Next]_vars

(***************************************************************************)
(* check_solution called on its own, step by step, on files that may lie   *)
(* in different directories.                                               *)
(***************************************************************************)
VerifyInit ==
    /\ listing = {}
    /\ phase = "none"
    /\ matched = {}
    /\ grouped = <<>>
    /\ tests = <<>>
    /\ results = <<>>
    /\ \E din \in Dirs, dsol \in Dirs :
         /\ in_file = Path(din, InName(3))
         /\ out_file = Path(din, OutName(3))
         /\ solution_file = Path(dsol, PyName(3))
    /\ fileRaw \in Texts
    /\ expected_out = <<>>
    /\ csPc = "start"
    /\ procRan = FALSE
    /\ procCmd = <<>>
    /\ procOut = <<>>
    /\ procErr = <<>>
    /\ procCode = 0
    /\ raised = NoException
    /\ written = {}
    /\ tmpdirs = {}

\* lines 185-195: both files are read, the expected output is kept
CsReadFiles ==
    /\ csPc = "start"
    /\ expected_out' = ExpectedLines(fileRaw)
    /\ csPc' = "read"
    /\ UNCHANGED <<mainVars, in_file, out_file, solution_file, fileRaw, procRan,
                   procCmd, procOut, procErr, procCode, raised, written, tmpdirs>>

\* lines 198-206
CsStage ==
    /\ csPc = "read"
    /\ IF NeedsStaging(in_file, solution_file)
       THEN /\ tmpdirs' = tmpdirs \cup {"tmpdir"}
            /\ raised' = StagingError
            /\ csPc' = "done"
       ELSE /\ csPc' = "staged"
            /\ UNCHANGED <<tmpdirs, raised>>
    /\ UNCHANGED <<mainVars, in_file, out_file, solution_file, fileRaw, expected_out,
                   procRan, procCmd, procOut, procErr, procCode, written>>

\* lines 209-218: the solution is run and its streams are captured; what it
\* writes and how it exits is up to the solution
CsRun ==
    /\ csPc = "staged"
    /\ procRan' = TRUE
    /\ procCmd' = solution_file
    /\ procOut' \in Texts
    /\ procErr' \in ErrTexts
    /\ procCode' \in ExitCodes
    /\ csPc' = "ran"
    /\ UNCHANGED <<mainVars, in_file, out_file, solution_file, fileRaw, expected_out,
                   raised, written, tmpdirs>>

\* lines 219-265
CsCheck ==
    /\ csPc = "ran"
    /\ \E res \in {CheckOutput(in_file, solution_file, expected_out, procOut, procErr)} :
          /\ raised' = res.raised
          /\ written' = written \cup res.written
    /\ csPc' = "done"
    /\ UNCHANGED <<mainVars, in_file, out_file, solution_file, fileRaw, expected_out,
                   procRan, procCmd, procOut, procErr, procCode, tmpdirs>>

\* the unused TemporaryDirectory object of line 200 is collected after
\* check_solution has ended, and its finalizer removes its directory
CsFinalize ==
    /\ csPc = "done"
    /\ "tmpdir" \in tmpdirs
    /\ tmpdirs' = tmpdirs \ {"tmpdir"}
    /\ UNCHANGED <<mainVars, in_file, out_file, solution_file, fileRaw, expected_out,
                   csPc, procRan, procCmd, procOut, procErr, procCode, raised, written>>

VerifyNext ==
    \/ CsReadFiles
    \/ CsStage
    \/ CsRun
    \/ CsCheck
    \/ CsFinalize

SpecVerify == VerifyInit /\ [][VerifyNext]_vars

(***************************************************************************)
(* Properties.                                                             *)
(***************************************************************************)
\* the three file names of problem n
Triple(n) == {InName(n), OutName(n), PyName(n)}

\* a name of the form Prob##.in.txt, Prob##.out.txt or Prob##.py
IsCqName(f) == \E n \in 0..99 : f \in Triple(n)

\* C1: the set get_cq_files returns is exactly the set of the names of the
\* directory of the form Prob##.in.txt, Prob##.out.txt or Prob##.py: every
\* such name is in it and no other name is.
C1_ExactlyThePatternNames ==
    phase \in {"discovered", "grouped", "created"} =>
        matched = {f \in listing : IsCqName(f)}

\* a group is complete: three entries, the input, the expected output and
\* the solution of its problem number
IsCompleteGroup(n, files) == Len(files) = 3 /\ Range(files) = Triple(n)

\* C2: create_test_funcs creates a test for a group if and only if the group
\* is complete, and the test is bound to the files of that problem in the
\* order input, expected output, solution.
C2_TestsForCompleteGroups ==
    phase = "created" =>
        \A n \in DOMAIN grouped :
            /\ TestName(n) \in DOMAIN tests <=> IsCompleteGroup(n, grouped[n])
            /\ TestName(n) \in DOMAIN tests =>
                   tests[TestName(n)] = <<InName(n), OutName(n), PyName(n)>>

\* check_solution has ended after running a solution that wrote nothing to
\* its error stream
RanQuietly == csPc = "done" /\ procRan /\ procErr = <<>>

Succeeded == raised = NoException /\ written = {}

LineA == <<"A", "\n">>

LineB == <<"B", "\n">>

LineC == <<"C", "\n">>

\* C4: on the output lines "A\n", "B\n" against the expected lines "A\n",
\* "C\n", check_solution fails with the mismatch failure for line 2, which
\* reports the actual line "B\n" and the expected line "C\n", and the
\* artifact holds "A\nB\n".
C4_MismatchAtLine2 ==
    (RanQuietly /\ OutLines(procOut) = <<LineA, LineB>> /\ expected_out = <<LineA, LineC>>)
        => /\ raised.type = "AssertionError"
           /\ raised.line_no = 2
           /\ raised.diff = Entry("-", LineB)
           /\ StrReplace(Entry("+", LineC), <<" ">>, <<"^">>)
                  \in {raised.difference, raised.expected}
           /\ \E w \in written : written = {w} /\ w.content = LineA \o LineB

\* C5: whenever the solution wrote to its error stream, check_solution fails
\* with the execution error carrying that text and writes no artifact,
\* whatever the output and the exit code.
C5_ErrorStreamFirst ==
    (csPc = "done" /\ procRan /\ procErr # <<>>)
        => /\ raised = [type |-> "Exception", solution |-> Basename(solution_file),
                        err |-> procErr]
           /\ written = {}

\* a solution that exits with 0, writes exactly the expected output, and
\* writes to its error stream
C5_Witness ==
    /\ csPc = "done"
    /\ procRan
    /\ procErr # <<>>
    /\ procCode = 0
    /\ expected_out # <<>>
    /\ SplitLines(StripCR(procOut)) = expected_out
    /\ raised.type = "Exception"

\* C6: when the input and the solution lie in different directories,
\* check_solution runs the solution, on a copy staged in a temporary
\* directory that exists while the process runs, and ends as it does for
\* files of one directory: with success, a mismatch or an execution error.
C6_RunsOnStagedCopies ==
    NeedsStaging(in_file, solution_file) =>
        /\ csPc = "ran" => (tmpdirs # {} /\ procCmd # solution_file)
        /\ csPc = "done" =>
              (procRan /\ raised.type \in {"None", "AssertionError", "Exception"})

\* the directory holds well-formed triples only: every name is one of the
\* three names of a problem number, and the other two are there as well
WellFormedTriplesOnly(names) ==
    \A f \in names : \E n \in ProblemNumbers : f \in Triple(n) /\ Triple(n) \subseteq names

\* C7: for a directory of well-formed triples only, the groups are one per
\* problem number present, each holds exactly the three files of its number,
\* and each discovered file lies in the group of its own number and in no
\* other.
C7_OneGroupPerNumber ==
    (phase = "grouped" /\ WellFormedTriplesOnly(listing)) =>
        /\ DOMAIN grouped = {n \in ProblemNumbers : Triple(n) \subseteq listing}
        /\ \A n \in DOMAIN grouped : Len(grouped[n]) = 3 /\ Range(grouped[n]) = Triple(n)
        /\ \A f \in listing :
               {n \in DOMAIN grouped : f \in Range(grouped[n])}
                   = {n \in ProblemNumbers : f \in Triple(n)}

\* two complete triples, grouped
C7_Witness ==
    /\ phase = "grouped"
    /\ WellFormedTriplesOnly(listing)
    /\ Cardinality(DOMAIN grouped) >= 2
    /\ Cardinality(listing) = 3 * Cardinality(DOMAIN grouped)

\* C8: every test method create_test_funcs created has been run and has its
\* own result when unittest reports, whatever the methods run before it
\* raised.
C8_EveryTestReported ==
    /\ DOMAIN results \subseteq DOMAIN tests
    /\ phase = "reported" => DOMAIN results = DOMAIN tests

\* a test reported as passed that ran after a failed one and an errored one
C8_Witness ==
    /\ phase = "reported"
    /\ \E t1 \in DOMAIN tests, t2 \in DOMAIN tests :
          /\ StrLess(t1, t2)
          /\ results[t1].status # "ok"
          /\ results[t2].status = "ok"

\* C9: whenever the output differs from the expected output, the comparison
\* ends with the artifact written and the mismatch failure raised, and with
\* no other exception.
C9_MismatchAlwaysReported ==
    (RanQuietly /\ OutLines(procOut) # expected_out)
        => (raised.type = "AssertionError" /\ written # {})

\* the first position at which a and b differ, a and b being different
FirstDifference(a, b) ==
    SetMin({k \in 1..(Len(a) + Len(b)) :
               k > Len(a) \/ k > Len(b) \/ a[k] # b[k]})

CommonPrefix(a, b, n) ==
    \A k \in 1..(n - 1) : k <= Len(a) /\ k <= Len(b) /\ a[k] = b[k]

\* C10, as stated: the line number n of a reported mismatch is the first
\* position at which the output and the expected output differ: the lines
\* before n are equal, and at n the two differ or exactly one has ended.
C10_FirstDifferingLine ==
    (csPc = "done" /\ raised.type = "AssertionError") =>
        /\ CommonPrefix(OutLines(procOut), expected_out, raised.line_no)
        /\ raised.line_no = FirstDifference(OutLines(procOut), expected_out)

\* C10, amended: the line number n of a reported mismatch is at least 1 and
\* at most the first position at which the output and the expected output
\* differ, and the lines before n are equal; the lines at n itself may be
\* equal.
C10_NoLaterThanFirstDifference ==
    (csPc = "done" /\ raised.type = "AssertionError") =>
        /\ raised.line_no >= 1
        /\ CommonPrefix(OutLines(procOut), expected_out, raised.line_no)
        /\ raised.line_no <= FirstDifference(OutLines(procOut), expected_out)

\* a mismatch reported at line 2, after an equal first line
C10_Witness ==
    /\ csPc = "done"
    /\ raised.type = "AssertionError"
    /\ raised.line_no = 2
    /\ FirstDifference(OutLines(procOut), expected_out) = 2

====
